---- MODULE Spec2Model ----
(***************************************************************************)
(* Content analysis and scoring pipeline of the content optimizer          *)
(* (nlp_utils.py), its HTTP routes (app.py) and the generative             *)
(* collaborators (gemini_utils.py).                                        *)
(*                                                                         *)
(* A text is represented by what the linguistic collaborators (textstat,   *)
(* nltk, BeautifulSoup) report about it: word counts, heading counts,      *)
(* readability statistics and word frequencies.  Float metrics are exact   *)
(* rationals [n, d] with d > 0; the Flesch-Kincaid grade and the average   *)
(* sentence length are taken to a resolution of one tenth.                 *)
(***************************************************************************)
EXTENDS Integers, Sequences, FiniteSets, TLC

(***************************************************************************)
(* Bounds of the model.                                                    *)
(***************************************************************************)
MaxHeadings == 2
MaxDistinct == 2
MaxHits == 2
MaxLines == 3
MaxTopicWords == 20

(***************************************************************************)
(* Exact rational arithmetic for the float-valued metrics.                 *)
(***************************************************************************)
Rat(n, d) == [n |-> n, d |-> d]
RInt(k) == Rat(k, 1)
RLt(a, b) == a.n * b.d < b.n * a.d
RGt(a, b) == RLt(b, a)
RLe(a, b) == ~RLt(b, a)
REq(a, b) == a.n * b.d = b.n * a.d
\* Python's min(a, b) and max(a, b) return a unless b is strictly better.
RMin(a, b) == IF RLt(b, a) THEN b ELSE a
RMax(a, b) == IF RGt(b, a) THEN b ELSE a
Min2(a, b) == IF b < a THEN b ELSE a
Max2(a, b) == IF b > a THEN b ELSE a

\* The empty dict {}.
EmptyDict == [k \in {} |-> 0]

\* dict.get(key, default)
Get(d, k, default) == IF k \in DOMAIN d THEN d[k] ELSE default

RECURSIVE SumSeq(_)
SumSeq(s) == IF Len(s) = 0 THEN 0 ELSE Head(s) + SumSeq(Tail(s))

(***************************************************************************)
(* ContentOptimizer.analyze_readability                                    *)
(* doc.grade and doc.asl are textstat's results in tenths.                 *)
(***************************************************************************)
\* passive_count / len(sent_tokenize(text)) * 100 without the test on the
\* sentences: a division by zero leaves the denominator 0.
analyze_readability_unguarded(doc) ==
    [flesch_kincaid_grade |-> Rat(doc.grade, 10),
     avg_sentence_length |-> Rat(doc.asl, 10),
     word_count |-> doc.words,
     passive_voice_count |-> doc.passive,
     passive_voice_percentage |-> Rat(doc.passive * 100, doc.sentences)]

analyze_readability(doc) ==
    [flesch_kincaid_grade |-> Rat(doc.grade, 10),
     avg_sentence_length |-> Rat(doc.asl, 10),
     word_count |-> doc.words,
     passive_voice_count |-> doc.passive,
     passive_voice_percentage |->
        IF doc.sentences # 0 THEN Rat(doc.passive * 100, doc.sentences) ELSE RInt(0)]

(***************************************************************************)
(* ContentOptimizer.analyze_topic_coverage without reference topics.       *)
(* doc.unique and doc.total are len(set(words)) and len(words) of the       *)
(* alphabetic non-stopword tokens.                                         *)
(***************************************************************************)
\* The coverage taken per word: unique_words / max(total_words, 1) * 100.
analyze_topic_coverage_per_word(doc) ==
    LET unique_words == doc.unique
        total_words == doc.total
        denom == RMax(RInt(total_words), RInt(1))
        raw == Rat(unique_words * 100 * denom.d, denom.n)
    IN [coverage_score |-> RMin(raw, RInt(100)),
        unique_words |-> unique_words,
        total_words |-> total_words,
        lexical_diversity |->
            IF total_words # 0 THEN Rat(unique_words, total_words) ELSE RInt(0)]

analyze_topic_coverage(doc) ==
    LET unique_words == doc.unique
        total_words == doc.total
        denom == RMax(Rat(total_words, 10), RInt(1))
        raw == Rat(unique_words * 100 * denom.d, denom.n)
    IN [coverage_score |-> RMin(raw, RInt(100)),
        unique_words |-> unique_words,
        total_words |-> total_words,
        lexical_diversity |->
            IF total_words # 0 THEN Rat(unique_words, total_words) ELSE RInt(0)]

(***************************************************************************)
(* Counter.most_common(top_n) over the keyword counts: doc.kwfreq[i] is    *)
(* the count of the i-th distinct qualifying keyword in first-seen order.  *)
(* The result lists [word, count] by decreasing count, first seen first    *)
(* among equal counts, cut to top_n entries.                               *)
(***************************************************************************)
top_n == 5

RECURSIVE InsertByCount(_, _)
InsertByCount(s, e) ==
    IF Len(s) = 0 THEN <<e>>
    ELSE IF Head(s).count >= e.count THEN <<Head(s)>> \o InsertByCount(Tail(s), e)
    ELSE <<e>> \o s

RECURSIVE ByCount(_, _)
ByCount(freq, k) ==
    IF k = 0 THEN <<>>
    ELSE InsertByCount(ByCount(freq, k - 1), [word |-> k, count |-> freq[k]])

most_common(freq, n) ==
    LET all == ByCount(freq, Len(freq))
    IN SubSeq(all, 1, Min2(n, Len(all)))

(***************************************************************************)
(* ContentOptimizer.calculate_keyword_density: an ordered mapping, one     *)
(* entry [word, density] per top keyword, density = count / total * 100.   *)
(***************************************************************************)
calculate_keyword_density(doc) ==
    LET total_words == SumSeq(doc.kwfreq)
        top == most_common(doc.kwfreq, top_n)
    IN [i \in 1..Len(top) |->
            [word |-> top[i].word, density |-> Rat(top[i].count * 100, total_words)]]

(***************************************************************************)
(* ContentOptimizer.analyze_seo_features                                   *)
(***************************************************************************)
analyze_seo_features(doc) ==
    [heading_structure |->
        [h1_count |-> doc.h1,
         h2_count |-> doc.h2,
         proper_hierarchy |-> (doc.h1 = 1 /\ doc.h2 > 0)],
     content_length |-> doc.words,
     keyword_density |-> calculate_keyword_density(doc)]

(***************************************************************************)
(* ContentOptimizer.detect_tone                                            *)
(* A text is what the string operations report about it: text.has, the    *)
(* indicators that occur in its lower-case form as substrings, and         *)
(* text.words, len(text.split()).                                          *)
(***************************************************************************)
formal_indicators ==
    <<"furthermore", "moreover", "consequently", "therefore", "thus", "hence">>
casual_indicators ==
    <<"really", "pretty", "quite", "sort of", "kind of", "stuff", "things">>
expert_indicators ==
    <<"methodology", "implementation", "framework", "analysis", "evaluation">>
persuasive_indicators ==
    <<"should", "must", "need to", "important", "essential", "critical">>

\* The keys of the scores dict, in insertion order.
ToneKeys == <<"formal", "casual", "expert", "persuasive">>

\* sum(1 for indicator in indicators if indicator in text_lower)
IndicatorHits(indicators, text) ==
    Cardinality({i \in 1..Len(indicators) : indicators[i] \in text.has})

\* max(scores, key=scores.get) keeping the last of the greatest keys.
RECURSIVE MaxKeyLast(_, _, _)
MaxKeyLast(keys, scores, best) ==
    IF Len(keys) = 0 THEN best
    ELSE MaxKeyLast(Tail(keys), scores,
                    IF scores[Head(keys)] >= scores[best] THEN Head(keys) ELSE best)

\* max(scores, key=scores.get): the keys in order, a later key replaces the
\* best one only when its score is strictly greater.
RECURSIVE MaxKey(_, _, _)
MaxKey(keys, scores, best) ==
    IF Len(keys) = 0 THEN best
    ELSE MaxKey(Tail(keys), scores,
                IF scores[Head(keys)] > scores[best] THEN Head(keys) ELSE best)

\* max(scores.values())
MaxValue(scores) ==
    CHOOSE v \in {scores[k] : k \in DOMAIN scores} :
        \A k \in DOMAIN scores : scores[k] <= v

detect_tone(text) ==
    LET scores == [formal |-> IndicatorHits(formal_indicators, text),
                   casual |-> IndicatorHits(casual_indicators, text),
                   expert |-> IndicatorHits(expert_indicators, text),
                   persuasive |-> IndicatorHits(persuasive_indicators, text)]
        dominant_tone ==
            IF \E k \in DOMAIN scores : scores[k] # 0
            THEN MaxKey(Tail(ToneKeys), scores, Head(ToneKeys))
            ELSE "neutral"
    IN [detected_tone |-> dominant_tone,
        tone_scores |-> scores,
        confidence |->
            IF text.words # 0 THEN Rat(MaxValue(scores) * 100, text.words) ELSE RInt(0)]

(***************************************************************************)
(* ContentOptimizer.generate_recommendations                               *)
(* A message is its fixed wording and, for the keyword rule, the keyword   *)
(* it names (0 when it names none).                                        *)
(***************************************************************************)
Rec(t, p, text, kw, cur, tgt) ==
    [type |-> t, priority |-> p, message |-> [text |-> text, keyword |-> kw],
     current_value |-> cur, target_value |-> tgt]

When(c, r) == IF c THEN <<r>> ELSE <<>>

PriorityWeight(p) == CASE p = "high" -> 3 [] p = "medium" -> 2 [] p = "low" -> 1

\* A descending sort that is not stable: a later equal element goes first.
RECURSIVE InsertByPriorityUnstable(_, _)
InsertByPriorityUnstable(s, r) ==
    IF Len(s) = 0 THEN <<r>>
    ELSE IF PriorityWeight(Head(s).priority) > PriorityWeight(r.priority)
         THEN <<Head(s)>> \o InsertByPriorityUnstable(Tail(s), r)
         ELSE <<r>> \o s

\* sorted(..., key=weight, reverse=True): a stable sort, equal keys keep their order.
RECURSIVE InsertByPriority(_, _)
InsertByPriority(s, r) ==
    IF Len(s) = 0 THEN <<r>>
    ELSE IF PriorityWeight(Head(s).priority) >= PriorityWeight(r.priority)
         THEN <<Head(s)>> \o InsertByPriority(Tail(s), r)
         ELSE <<r>> \o s

RECURSIVE SortedByPriority(_)
SortedByPriority(s) ==
    IF Len(s) = 0 THEN <<>>
    ELSE InsertByPriority(SortedByPriority(SubSeq(s, 1, Len(s) - 1)), s[Len(s)])

RECURSIVE KeywordRecs(_)
KeywordRecs(kd) ==
    IF Len(kd) = 0 THEN <<>>
    ELSE When(RGt(Head(kd).density, RInt(3)),
              Rec("seo", "medium", "Keyword density too high", Head(kd).word,
                  Head(kd).density, RInt(3)))
         \o KeywordRecs(Tail(kd))

GradeRule(readability, target_grade) ==
    When(RGt(readability.flesch_kincaid_grade, RInt(target_grade)),
         Rec("readability", "high", "Reading grade too high", 0,
             readability.flesch_kincaid_grade, RInt(target_grade)))

SentenceLengthRule(readability) ==
    When(RGt(readability.avg_sentence_length, RInt(20)),
         Rec("readability", "medium", "Average sentence length too long", 0,
             readability.avg_sentence_length, RInt(20)))

PassiveVoiceRule(readability) ==
    When(RGt(readability.passive_voice_percentage, RInt(10)),
         Rec("style", "medium", "High passive voice usage", 0,
             readability.passive_voice_percentage, RInt(10)))

H1Rule(seo) ==
    IF seo.heading_structure.h1_count = 0
    THEN <<Rec("seo", "high", "Missing H1 heading", 0, RInt(0), RInt(1))>>
    ELSE IF seo.heading_structure.h1_count > 1
    THEN <<Rec("seo", "medium", "Multiple H1 headings found", 0,
               RInt(seo.heading_structure.h1_count), RInt(1))>>
    ELSE <<>>

H2RuleUnguarded(seo) ==
    When(seo.heading_structure.h2_count = 0,
         Rec("seo", "medium", "No H2 headings found", 0, RInt(0), RInt(2)))

H2Rule(seo) ==
    When(seo.heading_structure.h2_count = 0 /\ seo.content_length > 300,
         Rec("seo", "medium", "No H2 headings found", 0, RInt(0), RInt(2)))

ContentLengthRule(seo) ==
    When(seo.content_length < 300,
         Rec("content", "high", "Content too short", 0,
             RInt(seo.content_length), RInt(300)))

CoverageRuleInclusive(topic_coverage) ==
    When(RLe(topic_coverage.coverage_score, RInt(70)),
         Rec("content", "medium", "Low topic coverage score", 0,
             topic_coverage.coverage_score, RInt(70)))

CoverageRule(topic_coverage) ==
    When(RLt(topic_coverage.coverage_score, RInt(70)),
         Rec("content", "medium", "Low topic coverage score", 0,
             topic_coverage.coverage_score, RInt(70)))

DiversityRule(topic_coverage) ==
    When(RLt(topic_coverage.lexical_diversity, Rat(1, 2)),
         Rec("style", "low", "Low vocabulary diversity", 0,
             topic_coverage.lexical_diversity, Rat(1, 2)))

\* The recommendations in the order the rules append them.
RulesInOrder(analysis_results, target_params) ==
    LET readability == analysis_results.readability
        target_grade == Get(target_params, "target_readability", 8)
        seo == analysis_results.seo
        topic_coverage == analysis_results.topic_coverage
    IN  GradeRule(readability, target_grade)
     \o SentenceLengthRule(readability)
     \o PassiveVoiceRule(readability)
     \o H1Rule(seo)
     \o H2Rule(seo)
     \o KeywordRecs(seo.keyword_density)
     \o ContentLengthRule(seo)
     \o CoverageRule(topic_coverage)
     \o DiversityRule(topic_coverage)

generate_recommendations(analysis_results, target_params) ==
    SortedByPriority(RulesInOrder(analysis_results, target_params))

(***************************************************************************)
(* calculate_seo_score                                                     *)
(***************************************************************************)
RECURSIVE DenseCount(_)
DenseCount(kd) ==
    IF Len(kd) = 0 THEN 0
    ELSE (IF RGt(Head(kd).density, RInt(3)) THEN 1 ELSE 0) + DenseCount(Tail(kd))

\* The clamp applied to the running score before the keyword penalty as well.
calculate_seo_score_clamped_early(seo_analysis) ==
    LET hs == seo_analysis.heading_structure
        s1 == IF hs.h1_count = 0 THEN 80 ELSE IF hs.h1_count > 1 THEN 90 ELSE 100
        s2 == IF hs.h2_count > 0 THEN s1 + 5 ELSE s1 - 10
        s3 == IF seo_analysis.content_length < 300 THEN s2 - 15
              ELSE IF seo_analysis.content_length > 2000 THEN s2 + 10 ELSE s2
        s4 == Max2(0, Min2(100, s3)) - 5 * DenseCount(seo_analysis.keyword_density)
    IN Max2(0, Min2(100, s4))

calculate_seo_score(seo_analysis) ==
    LET hs == seo_analysis.heading_structure
        s0 == 100
        s1 == IF hs.h1_count = 0 THEN s0 - 20
              ELSE IF hs.h1_count > 1 THEN s0 - 10 ELSE s0
        s2 == IF hs.h2_count > 0 THEN s1 + 5 ELSE s1 - 10
        s3 == IF seo_analysis.content_length < 300 THEN s2 - 15
              ELSE IF seo_analysis.content_length > 2000 THEN s2 + 10 ELSE s2
        s4 == s3 - 5 * DenseCount(seo_analysis.keyword_density)
    IN Max2(0, Min2(100, s4))

(***************************************************************************)
(* Request values.  A request dict is a function from the keys it holds    *)
(* to their values.  The value of target_readability is a JSON integer,    *)
(* a JSON string (a sequence of characters) or null.                       *)
(***************************************************************************)
PyInt(i) == [tag |-> "int", i |-> i, s |-> <<>>]
PyStr(s) == [tag |-> "str", i |-> 0, s |-> s]
PyNone == [tag |-> "none", i |-> 0, s |-> <<>>]

Digits == {"0", "1", "2", "3", "4", "5", "6", "7", "8", "9"}
DigitVal(c) ==
    CASE c = "0" -> 0 [] c = "1" -> 1 [] c = "2" -> 2 [] c = "3" -> 3 [] c = "4" -> 4
      [] c = "5" -> 5 [] c = "6" -> 6 [] c = "7" -> 7 [] c = "8" -> 8 [] c = "9" -> 9

RECURSIVE LStrip(_)
LStrip(s) == IF Len(s) > 0 /\ Head(s) = " " THEN LStrip(Tail(s)) ELSE s
RECURSIVE RStrip(_)
RStrip(s) ==
    IF Len(s) > 0 /\ s[Len(s)] = " " THEN RStrip(SubSeq(s, 1, Len(s) - 1)) ELSE s

RECURSIVE DigitsValue(_)
DigitsValue(s) ==
    IF Len(s) = 0 THEN 0
    ELSE 10 * DigitsValue(SubSeq(s, 1, Len(s) - 1)) + DigitVal(s[Len(s)])

\* Python's int(v): [ok, val, error]
int(v) ==
    CASE v.tag = "int" -> [ok |-> TRUE, val |-> v.i, error |-> ""]
      [] v.tag = "none" -> [ok |-> FALSE, val |-> 0, error |-> "TypeError"]
      [] v.tag = "str" ->
            LET t == RStrip(LStrip(v.s))
                signed == Len(t) > 0 /\ Head(t) \in {"-", "+"}
                body == IF signed THEN Tail(t) ELSE t
            IN IF Len(body) > 0 /\ \A k \in 1..Len(body) : body[k] \in Digits
               THEN [ok |-> TRUE,
                     val |-> IF signed /\ Head(t) = "-" THEN 0 - DigitsValue(body)
                             ELSE DigitsValue(body),
                     error |-> ""]
               ELSE [ok |-> FALSE, val |-> 0, error |-> "ValueError"]

(***************************************************************************)
(* process_content: [raised, error, report, recommendations].              *)
(* data["content"] is the text, given by what the collaborators report of  *)
(* it.                                                                     *)
(***************************************************************************)
Raised(e) == [raised |-> TRUE, error |-> e, report |-> <<>>, recommendations |-> <<>>]

\* The score without its lower clamp.
readability_score_no_floor(grade, target) ==
    RMin(RInt(100), Rat(100 * grade.d - (grade.n - target * grade.d) * 10, grade.d))

readability_score(grade, target) ==
    RMax(RInt(0),
         RMin(RInt(100), Rat(100 * grade.d - (grade.n - target * grade.d) * 10, grade.d)))

process_content(data) ==
    IF "content" \notin DOMAIN data THEN Raised("KeyError")
    ELSE
    LET text == data["content"]
        grade_arg == int(Get(data, "target_readability", PyInt(8)))
    IN IF ~grade_arg.ok THEN Raised(grade_arg.error)
       ELSE
       LET target_params ==
               [target_audience |-> Get(data, "target_audience", ""),
                target_readability |-> grade_arg.val,
                target_tone |-> Get(data, "target_tone", ""),
                optimization_goal |-> Get(data, "optimization_goal", "")]
           analysis_results ==
               [readability |-> analyze_readability(text),
                topic_coverage |-> analyze_topic_coverage(text),
                seo |-> analyze_seo_features(text)]
           recommendations == generate_recommendations(analysis_results, target_params)
           overall_scores ==
               [readability_score |->
                    readability_score(analysis_results.readability.flesch_kincaid_grade,
                                      target_params.target_readability),
                seo_score |-> calculate_seo_score(analysis_results.seo),
                content_quality_score |->
                    RMin(RInt(100), analysis_results.topic_coverage.coverage_score)]
       IN [raised |-> FALSE, error |-> "",
           report |-> [analysis |-> analysis_results,
                       scores |-> overall_scores,
                       target_params |-> target_params],
           recommendations |-> recommendations]

(***************************************************************************)
(* gemini_utils.get_default_assets                                         *)
(***************************************************************************)
get_default_assets ==
    [headlines |-> <<"Transform Your Content with AI-Powered Optimization",
                     "Boost Engagement with Smart Content Enhancement",
                     "Professional Content Optimization Made Easy">>,
     meta_description |-> "Optimize your content with AI-powered tools for better readability, SEO, and engagement. Get actionable recommendations instantly.",
     faqs |-> <<[question |-> "What is content optimization?",
                 answer |-> "Content optimization is the process of improving your content's readability, SEO performance, and engagement potential using data-driven insights."],
                [question |-> "How does AI help with content optimization?",
                 answer |-> "AI analyzes your content for readability, tone, structure, and SEO factors, then provides specific recommendations for improvement."],
                [question |-> "What metrics are analyzed?",
                 answer |-> "We analyze readability scores, keyword density, heading structure, tone detection, and passive voice usage among other factors."]>>,
     cta_options |-> <<"Optimize Your Content Now", "Get Started Today",
                       "Improve Your Content", "Try Content Optimization">>,
     summary |-> "This content provides comprehensive guidance on optimizing written material for better performance and engagement.",
     keywords |-> <<"content optimization", "SEO", "readability", "AI tools",
                    "content marketing">>,
     social_media_posts |->
        [twitter |-> "Optimize your content with AI! Get instant feedback on readability, SEO, and engagement. #ContentMarketing #AI",
         linkedin |-> "Transform your content strategy with AI-powered optimization. Analyze readability, improve SEO, and boost engagement with data-driven insights.",
         facebook |-> "Want better content performance? Our AI tool analyzes your writing and provides actionable recommendations to improve readability and engagement!"]]

(***************************************************************************)
(* gemini_utils.parse_text_assets                                          *)
(* A line, stripped: the section keywords its lower-case form contains,    *)
(* whether it starts with "- " or the bullet sign and a space, and the     *)
(* text after that prefix, stripped, with its length.                      *)
(***************************************************************************)
\* The keyword tests with 'keyword' tried before 'summary'.
SectionOfKeywordFirst(line) ==
    IF "headline" \in line.has THEN "headlines"
    ELSE IF "meta description" \in line.has THEN "meta_description"
    ELSE IF "faq" \in line.has THEN "faqs"
    ELSE IF "cta" \in line.has \/ "call to action" \in line.has THEN "cta_options"
    ELSE IF "keyword" \in line.has THEN "keywords"
    ELSE IF "summary" \in line.has THEN "summary"
    ELSE "none"

\* The section a line names: the first keyword test that succeeds.
SectionOf(line) ==
    IF "headline" \in line.has THEN "headlines"
    ELSE IF "meta description" \in line.has THEN "meta_description"
    ELSE IF "faq" \in line.has THEN "faqs"
    ELSE IF "cta" \in line.has \/ "call to action" \in line.has THEN "cta_options"
    ELSE IF "summary" \in line.has THEN "summary"
    ELSE IF "keyword" \in line.has THEN "keywords"
    ELSE "none"

\* One turn of the loop over the lines: st = [current_section, assets].
ParseLine(st, line) ==
    IF SectionOf(line) # "none"
    THEN [st EXCEPT !.current_section = SectionOf(line)]
    ELSE IF line.bullet
    THEN IF st.current_section = "headlines" /\ line.len > 10
         THEN [st EXCEPT !.assets.headlines = Append(@, line.text)]
         ELSE IF st.current_section = "cta_options" /\ line.len > 5
         THEN [st EXCEPT !.assets.cta_options = Append(@, line.text)]
         ELSE IF st.current_section = "keywords" /\ line.len > 2
         THEN [st EXCEPT !.assets.keywords = Append(@, line.text)]
         ELSE st
    ELSE st

RECURSIVE ParseLines(_, _)
ParseLines(st, lines) ==
    IF Len(lines) = 0 THEN st ELSE ParseLines(ParseLine(st, Head(lines)), Tail(lines))

EmptyAssets ==
    [headlines |-> <<>>, meta_description |-> "", faqs |-> <<>>, cta_options |-> <<>>,
     summary |-> "", keywords |-> <<>>, social_media_posts |-> EmptyDict]

\* The defaults put in only for the parts parsing left empty.
FillDefaultsWhenEmpty(parsed) ==
    LET a1 == IF Len(parsed.headlines) = 0
              THEN [parsed EXCEPT !.headlines = get_default_assets.headlines] ELSE parsed
        a2 == IF a1.meta_description = ""
              THEN [a1 EXCEPT !.meta_description = get_default_assets.meta_description] ELSE a1
        a3 == IF Len(a2.faqs) = 0
              THEN [a2 EXCEPT !.faqs = get_default_assets.faqs] ELSE a2
        a4 == IF Len(a3.cta_options) = 0
              THEN [a3 EXCEPT !.cta_options = get_default_assets.cta_options] ELSE a3
    IN a4

\* "Fill with defaults if parsing didn't work well".
FillDefaults(parsed) ==
    LET a1 == IF Len(parsed.headlines) < 3
              THEN [parsed EXCEPT !.headlines = get_default_assets.headlines] ELSE parsed
        a2 == IF a1.meta_description = ""
              THEN [a1 EXCEPT !.meta_description = get_default_assets.meta_description] ELSE a1
        a3 == IF Len(a2.faqs) < 3
              THEN [a2 EXCEPT !.faqs = get_default_assets.faqs] ELSE a2
        a4 == IF Len(a3.cta_options) < 3
              THEN [a3 EXCEPT !.cta_options = get_default_assets.cta_options] ELSE a3
    IN a4

parse_text_assets(lines) ==
    FillDefaults(ParseLines([current_section |-> "none", assets |-> EmptyAssets], lines).assets)

(***************************************************************************)
(* The outcome of requests.post as the two collaborators read it:          *)
(* exc is the exception it raised ("none" when it returned), json_exc the  *)
(* exception response.json() raises ("none" when the body parses),         *)
(* candidates the 'candidates' list of the body (has_candidates: the key   *)
(* is there), each candidate with or without content.parts[0].text.        *)
(***************************************************************************)
Response(exc, status_code, json_exc, has_candidates, candidates) ==
    [exc |-> exc, status_code |-> status_code, json_exc |-> json_exc,
     has_candidates |-> has_candidates, candidates |-> candidates]

\* The exception classes that derive from requests.exceptions.RequestException
\* (Timeout among them, which has a handler of its own before it).
RequestExceptions == {"Timeout", "ConnectionError", "RequestException", "InvalidJSONError"}

(***************************************************************************)
(* gemini_rewrite: the prompt it builds, and what it returns.              *)
(* recommendations is [given, list]: given is FALSE for the default None.  *)
(***************************************************************************)
NoRecommendations == [given |-> FALSE, list |-> <<>>]
Recommendations(list) == [given |-> TRUE, list |-> list]

RECURSIVE ImprovementPointsAll(_)
ImprovementPointsAll(recs) ==
    IF Len(recs) = 0 THEN <<>>
    ELSE <<Head(recs).message>> \o ImprovementPointsAll(Tail(recs))

RECURSIVE ImprovementPoints(_)
ImprovementPoints(recs) ==
    IF Len(recs) = 0 THEN <<>>
    ELSE (IF Head(recs).priority \in {"high", "medium"} THEN <<Head(recs).message>> ELSE <<>>)
         \o ImprovementPoints(Tail(recs))

RewritePrompt(content, recommendations, target_params) ==
    LET improvement_points ==
            IF recommendations.given /\ Len(recommendations.list) > 0
            THEN ImprovementPoints(recommendations.list) ELSE <<>>
    IN [improvements_text |->
            IF Len(improvement_points) > 0
            THEN [generic |-> FALSE, points |-> improvement_points]
            ELSE [generic |-> TRUE, points |-> <<>>],
        target_info |->
            [audience |-> Get(target_params, "target_audience", "general audience"),
             reading_level |-> Get(target_params, "target_readability", PyInt(8)),
             tone |-> Get(target_params, "target_tone", "professional"),
             goal |-> Get(target_params, "optimization_goal", "engagement")],
        content |-> content]

\* The body of the try block: [exc, value], exc the exception that leaves it.
RewriteAttempt(response) ==
    IF response.exc # "none" THEN [exc |-> response.exc, value |-> ""]
    ELSE IF response.status_code = 200
    THEN IF response.json_exc # "none" THEN [exc |-> response.json_exc, value |-> ""]
         ELSE IF response.has_candidates /\ Len(response.candidates) > 0
         THEN IF response.candidates[1].has_text
              THEN [exc |-> "none", value |-> response.candidates[1].text]
              ELSE [exc |-> "KeyError", value |-> ""]
         ELSE [exc |-> "none",
               value |-> "[AI Enhancement: Unable to process content at this time]"]
    ELSE IF response.status_code = 429
    THEN [exc |-> "none",
          value |-> "[AI Enhancement: Service temporarily unavailable due to high demand. Please try again later.]"]
    ELSE [exc |-> "none",
          value |-> "[AI Enhancement: Service temporarily unavailable. Your original content analysis is still available above.]"]

\* The handlers without the last one, except Exception.
RewriteHandlersNoCatchAll(attempt) ==
    IF attempt.exc = "none" THEN [raised |-> FALSE, value |-> attempt.value]
    ELSE IF attempt.exc = "Timeout"
    THEN [raised |-> FALSE,
          value |-> "[AI Enhancement: Request timeout. Please try again with shorter content.]"]
    ELSE IF attempt.exc \in RequestExceptions
    THEN [raised |-> FALSE,
          value |-> "[AI Enhancement: Currently unavailable. Your content analysis is still available above.]"]
    ELSE [raised |-> TRUE, value |-> attempt.exc]

\* The except clauses, in their order: [raised, value].
RewriteHandlers(attempt) ==
    IF attempt.exc = "none" THEN [raised |-> FALSE, value |-> attempt.value]
    ELSE IF attempt.exc = "Timeout"
    THEN [raised |-> FALSE,
          value |-> "[AI Enhancement: Request timeout. Please try again with shorter content.]"]
    ELSE IF attempt.exc \in RequestExceptions
    THEN [raised |-> FALSE,
          value |-> "[AI Enhancement: Currently unavailable. Your content analysis is still available above.]"]
    ELSE [raised |-> FALSE,
          value |-> "[AI Enhancement: Temporarily unavailable. Please use the content analysis results above.]"]

gemini_rewrite(content, recommendations, target_params, response) ==
    [prompt |-> RewritePrompt(content, recommendations, target_params),
     reply |-> RewriteHandlers(RewriteAttempt(response))]

(***************************************************************************)
(* gemini_generate_assets: the prompt it builds, and what it returns.      *)
(* A generated text is [first_open, last_close, loads, lines]: the index   *)
(* of its first "{" and of its last "}" (-1 when there is none), what      *)
(* json.loads makes of the slice between them ([ok, value]) and its lines. *)
(***************************************************************************)
AssetsPrompt(content, target_params) ==
    [content |-> content,
     audience |-> Get(target_params, "target_audience", "general audience"),
     tone |-> Get(target_params, "target_tone", "professional"),
     goal |-> Get(target_params, "optimization_goal", "engagement")]

ExtractAssetsDefaulting(generated_text) ==
    LET start_idx == generated_text.first_open
        end_idx == generated_text.last_close + 1
    IN IF start_idx # -1 /\ end_idx # -1 /\ generated_text.loads.ok
       THEN generated_text.loads.value
       ELSE get_default_assets

ExtractAssets(generated_text) ==
    LET start_idx == generated_text.first_open
        end_idx == generated_text.last_close + 1
    IN IF start_idx # -1 /\ end_idx # -1
       THEN IF generated_text.loads.ok
            THEN generated_text.loads.value
            ELSE parse_text_assets(generated_text.lines)
       ELSE parse_text_assets(generated_text.lines)

\* The body of the try block: [exc, value].
AssetsAttempt(response) ==
    IF response.exc # "none" THEN [exc |-> response.exc, value |-> EmptyDict]
    ELSE IF response.status_code = 200
    THEN IF response.json_exc # "none" THEN [exc |-> response.json_exc, value |-> EmptyDict]
         ELSE IF response.has_candidates /\ Len(response.candidates) > 0
         THEN IF response.candidates[1].has_text
              THEN [exc |-> "none", value |-> ExtractAssets(response.candidates[1].text)]
              ELSE [exc |-> "KeyError", value |-> EmptyDict]
         ELSE [exc |-> "none", value |-> get_default_assets]
    ELSE [exc |-> "none", value |-> get_default_assets]

\* except Exception: [raised, value].
AssetsHandler(attempt) ==
    IF attempt.exc = "none" THEN [raised |-> FALSE, value |-> attempt.value]
    ELSE [raised |-> FALSE, value |-> get_default_assets]

gemini_generate_assets(content, target_params, response) ==
    [prompt |-> AssetsPrompt(content, target_params),
     reply |-> AssetsHandler(AssetsAttempt(response))]

(***************************************************************************)
(* The texts of the model.  A text is empty (""), blank (markup or white   *)
(* space only, no word) or worded.  The values stand on the thresholds of  *)
(* the rules and on both sides of them.                                    *)
(***************************************************************************)
GradeTenths == {80, 81, 250}
SentenceLengthTenths == {200, 201}
\* <<passive matches, sentences>>: 10% and 13.3%
PassiveCounts == {<<1, 10>>, <<2, 15>>}
WordCounts == {299, 300, 301, 1500, 2000, 2001}
\* <<unique, total>> alphabetic non-stopword tokens
TopicWords == {<<0, 0>>, <<6, 100>>, <<7, 100>>, <<49, 100>>, <<50, 100>>}
KeywordCounts == {1, 40}
KeywordFreqs == UNION {[1..k -> KeywordCounts] : k \in 0..MaxDistinct}
HeadingCounts == 0..MaxHeadings
TargetGrades == {8, 12}

Doc(empty, words, sentences, grade, asl, passive, h1, h2, kwfreq, unique, total) ==
    [empty |-> empty, words |-> words, sentences |-> sentences, grade |-> grade,
     asl |-> asl, passive |-> passive, h1 |-> h1, h2 |-> h2, kwfreq |-> kwfreq,
     unique |-> unique, total |-> total]

EmptyDoc == Doc(TRUE, 0, 0, 0, 0, 0, 0, 0, <<>>, 0, 0)

BlankDocs ==
    {Doc(FALSE, 0, 0, 0, 0, 0, h1, h2, <<>>, 0, 0) : h1 \in HeadingCounts, h2 \in HeadingCounts}

\* The keywords are among the topic words: no more of them, no more distinct.
WordedDocs ==
    {Doc(FALSE, w, p[2], g, a, p[1], h[1], h[2], kw, t[1], t[2]) :
        w \in WordCounts, g \in GradeTenths, a \in SentenceLengthTenths,
        p \in PassiveCounts, h \in HeadingCounts \X HeadingCounts,
        <<kw, t>> \in {x \in KeywordFreqs \X TopicWords :
                          SumSeq(x[1]) <= x[2][2] /\ Len(x[1]) <= x[2][1]}}

Docs == {EmptyDoc} \cup BlankDocs \cup WordedDocs

\* The request the front end sends: every field present.
FullData(doc, grade) ==
    ("content" :> doc) @@ ("target_readability" :> PyInt(grade))
    @@ ("target_audience" :> "developers") @@ ("target_tone" :> "casual")
    @@ ("optimization_goal" :> "conversion")

AnalysisDatas == {FullData(doc, g) : doc \in Docs, g \in TargetGrades}

(***************************************************************************)
(* The texts put to the analysis for their topic words: every number of    *)
(* qualifying words up to MaxTopicWords with every number of distinct ones *)
(* among them, and the larger texts of TopicWords.                         *)
(***************************************************************************)
CoverageTopicWords ==
    {<<0, 0>>} \cup {<<u, t>> \in (1..MaxTopicWords) \X (1..MaxTopicWords) : u <= t}
    \cup TopicWords
CoverageDocs ==
    {Doc(FALSE, 300, 10, 80, 200, 1, 1, 1, <<>>, t[1], t[2]) : t \in CoverageTopicWords}
CoverageDatas == {FullData(doc, 8) : doc \in {EmptyDoc} \cup CoverageDocs}

(***************************************************************************)
(* The texts put to detect_tone: up to MaxHits indicators occur in them,   *)
(* or all of them.  Indicators are matched as substrings, so several can   *)
(* occur in one whitespace-separated word ("thus,hence"); an indicator     *)
(* with a space in it needs two words.                                     *)
(***************************************************************************)
IndicatorsOf(list) == {list[i] : i \in 1..Len(list)}
AllIndicators ==
    IndicatorsOf(formal_indicators) \cup IndicatorsOf(casual_indicators)
    \cup IndicatorsOf(expert_indicators) \cup IndicatorsOf(persuasive_indicators)
SpacedIndicators == {"sort of", "kind of", "need to"}

RECURSIVE SubsetsUpTo(_, _)
SubsetsUpTo(S, k) ==
    IF k = 0 THEN {{}}
    ELSE LET smaller == SubsetsUpTo(S, k - 1)
         IN smaller \cup {t \cup {x} : t \in smaller, x \in S}

ToneWordCounts == {0, 1, 2, 3, 50}
\* The fewest words a text with these indicators can have.
MinWords(has) ==
    IF has \cap SpacedIndicators # {} THEN 2 ELSE IF has # {} THEN 1 ELSE 0

ToneText(has, words) == [has |-> has, words |-> words]
ToneTexts ==
    {ToneText(has, w) : <<has, w>> \in
        {x \in SubsetsUpTo(AllIndicators, MaxHits) \X ToneWordCounts :
            x[2] >= MinWords(x[1])}}
    \cup {ToneText(AllIndicators, 50)}

(***************************************************************************)
(* The requests of the model: each optional field absent, empty or given.  *)
(* A choice is <<present, value>>.                                         *)
(***************************************************************************)
\* Every rule fires but the ones on several H1 and on missing H2.
DocAllRules == Doc(FALSE, 299, 15, 250, 201, 2, 0, 0, <<40>>, 6, 100)
\* Only the low-priority rule fires.
DocOnlyLow == Doc(FALSE, 1500, 10, 80, 200, 1, 1, 1, <<>>, 49, 100)
\* No rule fires.
DocNoRecs == Doc(FALSE, 1500, 10, 80, 200, 1, 1, 1, <<>>, 50, 100)

ContentChoices ==
    {<<FALSE, EmptyDoc>>, <<TRUE, EmptyDoc>>, <<TRUE, DocAllRules>>, <<TRUE, DocOnlyLow>>,
     <<TRUE, DocNoRecs>>}
GradeChoices ==
    {<<FALSE, PyNone>>, <<TRUE, PyInt(12)>>, <<TRUE, PyStr(<<>>)>>,
     <<TRUE, PyStr(<<" ", "1", "0">>)>>, <<TRUE, PyNone>>}
StringChoices(given) == {<<FALSE, "">>, <<TRUE, "">>, <<TRUE, given>>}

Field(k, choice) == IF choice[1] THEN (k :> choice[2]) ELSE EmptyDict

RequestData(c, g, a, t, o) ==
    Field("content", c) @@ Field("target_readability", g) @@ Field("target_audience", a)
    @@ Field("target_tone", t) @@ Field("optimization_goal", o)

\* The requests put to the analysis: all four optional fields vary.
RequestDatas ==
    {RequestData(c, g, a, t, o) :
        c \in ContentChoices, g \in GradeChoices, a \in StringChoices("developers"),
        t \in StringChoices("casual"), o \in StringChoices("conversion")}

\* The requests put to the rewrite: the grade and the audience vary.
RewriteDatas ==
    {RequestData(c, g, a, <<TRUE, "casual">>, <<TRUE, "conversion">>) :
        c \in ContentChoices, g \in GradeChoices, a \in StringChoices("developers")}

\* request.json: it raises (no JSON body), is None (the body is null) or a dict.
Body(json, dict) == [json |-> json, dict |-> dict]
Bodies(datas) ==
    {Body("raises", EmptyDict), Body("null", EmptyDict)} \cup {Body("dict", d) : d \in datas}

(***************************************************************************)
(* The replies of the generative service.                                  *)
(***************************************************************************)
Candidate(has_text, text) == [has_text |-> has_text, text |-> text]

FailedResponses(no_text) ==
    {Response("Timeout", 0, "none", FALSE, <<>>),
     Response("ConnectionError", 0, "none", FALSE, <<>>),
     Response("Exception", 0, "none", FALSE, <<>>),
     Response("none", 429, "none", FALSE, <<>>),
     Response("none", 500, "none", FALSE, <<>>),
     Response("none", 200, "InvalidJSONError", FALSE, <<>>),
     Response("none", 200, "ValueError", FALSE, <<>>),
     Response("none", 200, "none", FALSE, <<>>),
     Response("none", 200, "none", TRUE, <<>>),
     Response("none", 200, "none", TRUE, <<Candidate(FALSE, no_text)>>)}

RewriteResponses ==
    FailedResponses("")
    \cup {Response("none", 200, "none", TRUE, <<Candidate(TRUE, "# A Clear Title")>>)}

Line(has, bullet, len, text) == [has |-> has, bullet |-> bullet, len |-> len, text |-> text]
GeneratedText(first_open, last_close, loads_ok, value, lines) ==
    [first_open |-> first_open, last_close |-> last_close,
     loads |-> [ok |-> loads_ok, value |-> value], lines |-> lines]

GeneratedAssets ==
    [headlines |-> <<"Write Better Content", "Rank Higher Today", "Engage Every Reader">>,
     meta_description |-> "A short guide to content that ranks.",
     faqs |-> <<[question |-> "Why optimize?", answer |-> "To be read."]>>,
     cta_options |-> <<"Start Now">>,
     summary |-> "A guide.",
     keywords |-> <<"content", "ranking">>,
     social_media_posts |-> [twitter |-> "Read this.", linkedin |-> "Read this.",
                             facebook |-> "Read this."]]

HeadlineLines ==
    <<Line({"headline"}, FALSE, 0, "Headlines:"),
      Line({}, TRUE, 20, "Write Better Content"),
      Line({}, TRUE, 17, "Rank Higher Today"),
      Line({}, TRUE, 19, "Engage Every Reader"),
      Line({"summary"}, FALSE, 0, "Summary: a guide."),
      Line({"keyword"}, FALSE, 0, "Keywords:"),
      Line({}, TRUE, 7, "content")>>

AssetTexts ==
    {GeneratedText(8, 400, TRUE, GeneratedAssets, <<Line({"headline", "faq"}, FALSE, 0, "{...}")>>),
     GeneratedText(0, 1, TRUE, EmptyDict, <<Line({}, FALSE, 0, "{}")>>),
     GeneratedText(0, 40, FALSE, EmptyDict, <<Line({"headline"}, FALSE, 0, "{'headlines': [...]}")>>),
     GeneratedText(12, -1, FALSE, EmptyDict, <<Line({}, FALSE, 0, "Here it is: {")>>),
     GeneratedText(-1, -1, FALSE, EmptyDict, <<Line({}, FALSE, 0, "I cannot help with that.")>>),
     GeneratedText(-1, -1, FALSE, EmptyDict, HeadlineLines)}

(***************************************************************************)
(* The texts put to parse_text_assets line by line: every sequence of up   *)
(* to MaxLines of the lines below, and two longer texts from which three   *)
(* headlines and three calls to action are parsed.                         *)
(***************************************************************************)
SectionLines ==
    {Line({"headline"}, FALSE, 0, "Headlines:"),
     Line({"meta description"}, FALSE, 0, "Meta description:"),
     Line({"faq"}, FALSE, 0, "FAQs"),
     Line({"cta"}, TRUE, 11, "CTA options"),
     Line({"call to action"}, FALSE, 0, "Call to action:"),
     Line({"summary", "keyword"}, FALSE, 0, "Summary and keywords"),
     Line({"keyword"}, FALSE, 0, "Keywords:")}
\* Bullet lines with a text of 11, 10, 6, 5, 3 and 2 characters.
BulletLines ==
    {Line({}, TRUE, 11, "Read it now"),
     Line({}, TRUE, 10, "Start here"),
     Line({}, TRUE, 6, "Buy it"),
     Line({}, TRUE, 5, "Go on"),
     Line({}, TRUE, 3, "SEO"),
     Line({}, TRUE, 2, "AI")}
PlainLines == {Line({}, FALSE, 0, "Here is what I wrote.")}
ParseLineKinds == SectionLines \cup BulletLines \cup PlainLines

CtaLines ==
    <<Line({"cta"}, FALSE, 0, "CTA:"),
      Line({}, TRUE, 6, "Buy it"),
      Line({}, TRUE, 10, "Start here"),
      Line({}, TRUE, 5, "Go on"),
      Line({}, TRUE, 11, "Read it now")>>

ParseTexts ==
    UNION {[1..n -> ParseLineKinds] : n \in 0..MaxLines} \cup {HeadlineLines, CtaLines}

AssetResponses ==
    FailedResponses(GeneratedText(-1, -1, FALSE, EmptyDict, <<>>))
    \cup {Response("none", 200, "none", TRUE, <<Candidate(TRUE, t)>>) : t \in AssetTexts}

(***************************************************************************)
(* app.optimize, the /optimize route: the response it sends.               *)
(***************************************************************************)
setdefault(d, k, v) == IF k \in DOMAIN d THEN d ELSE d @@ (k :> v)

SetDefaults(data) ==
    setdefault(setdefault(setdefault(setdefault(data,
        "target_readability", PyInt(8)),
        "target_audience", "general audience"),
        "target_tone", "professional"),
        "optimization_goal", "engagement")

\* not data.get('content'): no content key, or the empty string.
NoContent(data) == "content" \notin DOMAIN data \/ data["content"].empty

ErrorResponse(status, error) ==
    [status |-> status, success |-> FALSE, error |-> error, report |-> <<>>,
     recommendations |-> <<>>, rewritten |-> "", assets |-> EmptyDict]

optimize(body) ==
    IF body.json = "raises" THEN ErrorResponse(500, "An error occurred while processing your content")
    ELSE IF body.json = "null" \/ DOMAIN body.dict = {}
    THEN ErrorResponse(400, "No data received")
    ELSE IF NoContent(body.dict) THEN ErrorResponse(400, "Content is required")
    ELSE IF body.dict["content"].empty THEN ErrorResponse(400, "Content cannot be empty")
    ELSE LET r == process_content(SetDefaults(body.dict))
         IN IF r.raised
            THEN ErrorResponse(500, "An error occurred while processing your content")
            ELSE [status |-> 200, success |-> TRUE, error |-> "", report |-> r.report,
                  recommendations |-> r.recommendations, rewritten |-> "",
                  assets |-> EmptyDict]

(***************************************************************************)
(* State: the call in progress (pc, call), the locals of generate_rewrite  *)
(* (rw), the calls made to the two collaborators with the prompts they     *)
(* post (sent), the reply last received from the service (received), the   *)
(* locals of parse_text_assets (parse) and what the call returned          *)
(* (result).                                                               *)
(***************************************************************************)
VARIABLES pc, call, result, rw, sent, received, parse

vars == <<pc, call, result, rw, sent, received, parse>>

NoCall == [fn |-> "none", data |-> EmptyDict, body |-> Body("null", EmptyDict)]
NoResult == [raised |-> FALSE, error |-> "", report |-> <<>>, recommendations |-> <<>>]
NoRewrite ==
    [content |-> EmptyDoc, target_params |-> EmptyDict, in_try |-> FALSE,
     recommendations |-> NoRecommendations, rewritten |-> ""]
NoResponse == Response("none", 0, "none", FALSE, <<>>)
\* The locals of parse_text_assets: the lines left, current_section, assets.
NoParse == [lines |-> <<>>, current_section |-> "none", assets |-> EmptyDict]

Init ==
    /\ pc = "idle"
    /\ call = NoCall
    /\ result = NoResult
    /\ rw = NoRewrite
    /\ sent = <<>>
    /\ received = NoResponse
    /\ parse = NoParse

\* A caller invokes process_content(data).
CallProcessContent(datas) ==
    /\ pc = "idle"
    /\ \E data \in datas :
        /\ call' = [fn |-> "process_content", data |-> data, body |-> Body("dict", data)]
        /\ result' = process_content(data)
    /\ pc' = "done"
    /\ UNCHANGED <<rw, sent, received, parse>>

\* POST /optimize.
Optimize(bodies) ==
    /\ pc = "idle"
    /\ \E body \in bodies :
        /\ call' = [fn |-> "optimize", data |-> body.dict, body |-> body]
        /\ result' = optimize(body)
    /\ pc' = "done"
    /\ UNCHANGED <<rw, sent, received, parse>>

(***************************************************************************)
(* generate_rewrite, step by step: the analysis, the rewrite request, the  *)
(* asset request.  fn is "generate_rewrite" for a direct call and          *)
(* "rewrite" for the /rewrite route, which wraps what it returns.          *)
(***************************************************************************)
\* What the caller gets: the pair, or the exception; through the route, the response.
RewriteResult(fn, raised, error, rewritten, assets) ==
    IF fn = "rewrite"
    THEN IF raised
         THEN ErrorResponse(500, "An error occurred while rewriting your content")
         ELSE [status |-> 200, success |-> TRUE, error |-> "", report |-> <<>>,
               recommendations |-> <<>>, rewritten |-> rewritten, assets |-> assets]
    ELSE [raised |-> raised, error |-> error, rewritten |-> rewritten, assets |-> assets]

\* try: process_content(data) except Exception: whether the except block is
\* entered (caught), whether the exception leaves generate_rewrite (propagates),
\* and the recommendations handed on.
TryAnalysisUncaught(data) ==
    LET analysis == process_content(data)
    IN [caught |-> FALSE, propagates |-> analysis.raised, error |-> analysis.error,
        recommendations |-> Recommendations(analysis.recommendations)]

TryAnalysis(data) ==
    LET analysis == process_content(data)
    IN [caught |-> analysis.raised, propagates |-> FALSE, error |-> analysis.error,
        recommendations |->
            IF analysis.raised THEN NoRecommendations
            ELSE Recommendations(analysis.recommendations)]

\* The target_params generate_rewrite builds before the try block.
rewrite_target_params(data) ==
    [target_audience |-> Get(data, "target_audience", "general audience"),
     target_readability |-> Get(data, "target_readability", PyInt(8)),
     target_tone |-> Get(data, "target_tone", "professional"),
     optimization_goal |-> Get(data, "optimization_goal", "engagement")]

\* generate_rewrite from its entry to the end of the analysis.
StartRewrite(fn, data) ==
    IF "content" \notin DOMAIN data
    THEN /\ result' = RewriteResult(fn, TRUE, "KeyError", "", EmptyDict)
         /\ pc' = "done"
         /\ UNCHANGED rw
    ELSE LET analysis == TryAnalysis(data)
         IN IF analysis.propagates
            THEN /\ result' = RewriteResult(fn, TRUE, analysis.error, "", EmptyDict)
                 /\ pc' = "done"
                 /\ UNCHANGED rw
            ELSE /\ rw' = [content |-> data["content"],
                           target_params |-> rewrite_target_params(data),
                           in_try |-> ~analysis.caught,
                           recommendations |-> analysis.recommendations,
                           rewritten |-> ""]
                 /\ pc' = "rw_rewrite"
                 /\ UNCHANGED result

\* A caller invokes generate_rewrite(data).
CallGenerateRewrite(datas) ==
    /\ pc = "idle"
    /\ \E data \in datas :
        /\ call' = [fn |-> "generate_rewrite", data |-> data, body |-> Body("dict", data)]
        /\ StartRewrite("generate_rewrite", data)
    /\ UNCHANGED <<sent, received, parse>>

\* POST /rewrite: the validation, the defaults, then generate_rewrite.
RewriteRoute(bodies) ==
    /\ pc = "idle"
    /\ \E body \in bodies :
        /\ call' = [fn |-> "rewrite", data |-> body.dict, body |-> body]
        /\ IF body.json # "dict"
           THEN /\ result' = ErrorResponse(500, "An error occurred while rewriting your content")
                /\ pc' = "done"
                /\ UNCHANGED rw
           ELSE IF NoContent(body.dict)
           THEN /\ result' = ErrorResponse(400, "Content is required")
                /\ pc' = "done"
                /\ UNCHANGED rw
           ELSE StartRewrite("rewrite", SetDefaults(body.dict))
    /\ UNCHANGED <<sent, received, parse>>

\* An exception of a collaborator inside the try block is caught and the fallback
\* runs; inside the except block it leaves generate_rewrite.
CollaboratorRaised(error) ==
    IF rw.in_try
    THEN /\ rw' = [rw EXCEPT !.in_try = FALSE, !.recommendations = NoRecommendations]
         /\ pc' = "rw_rewrite"
         /\ UNCHANGED result
    ELSE /\ result' = RewriteResult(call.fn, TRUE, error, "", EmptyDict)
         /\ pc' = "done"
         /\ UNCHANGED rw

\* gemini_rewrite asked again as long as the reply is a placeholder.
RequestRewriteRetrying ==
    /\ pc = "rw_rewrite"
    /\ Len(sent) < 3
    /\ \E response \in RewriteResponses :
        LET g == gemini_rewrite(rw.content, rw.recommendations, rw.target_params, response)
        IN /\ sent' = Append(sent, [fn |-> "gemini_rewrite", content |-> rw.content,
                                     recommendations |-> rw.recommendations,
                                     target_params |-> rw.target_params,
                                     prompt |-> g.prompt])
           /\ received' = response
           /\ rw' = [rw EXCEPT !.rewritten = g.reply.value]
           /\ pc' = IF g.reply.value = "# A Clear Title" THEN "rw_assets" ELSE "rw_rewrite"
           /\ UNCHANGED result
    /\ UNCHANGED <<call, parse>>

\* gemini_rewrite(content, recommendations, target_params) and the service's reply.
RequestRewrite ==
    /\ pc = "rw_rewrite"
    /\ \E response \in RewriteResponses :
        LET g == gemini_rewrite(rw.content, rw.recommendations, rw.target_params, response)
        IN /\ sent' = Append(sent, [fn |-> "gemini_rewrite", content |-> rw.content,
                                     recommendations |-> rw.recommendations,
                                     target_params |-> rw.target_params,
                                     prompt |-> g.prompt])
           /\ received' = response
           /\ IF g.reply.raised
              THEN CollaboratorRaised(g.reply.value)
              ELSE /\ rw' = [rw EXCEPT !.rewritten = g.reply.value]
                   /\ pc' = "rw_assets"
                   /\ UNCHANGED result
    /\ UNCHANGED <<call, parse>>

\* gemini_generate_assets(content, target_params), the service's reply, the return.
RequestAssets ==
    /\ pc = "rw_assets"
    /\ \E response \in AssetResponses :
        LET g == gemini_generate_assets(rw.content, rw.target_params, response)
        IN /\ sent' = Append(sent, [fn |-> "gemini_generate_assets", content |-> rw.content,
                                     recommendations |-> NoRecommendations,
                                     target_params |-> rw.target_params,
                                     prompt |-> g.prompt])
           /\ received' = response
           /\ IF g.reply.raised
              THEN CollaboratorRaised("Exception")
              ELSE /\ result' = RewriteResult(call.fn, FALSE, "", rw.rewritten, g.reply.value)
                   /\ pc' = "done"
                   /\ UNCHANGED rw
    /\ UNCHANGED <<call, parse>>

\* The caller has taken the result; the next call starts from scratch.
Return ==
    /\ pc = "done"
    /\ pc' = "idle"
    /\ call' = NoCall
    /\ result' = NoResult
    /\ rw' = NoRewrite
    /\ sent' = <<>>
    /\ received' = NoResponse
    /\ parse' = NoParse

(***************************************************************************)
(* The analyzers of ContentOptimizer called one by one.                    *)
(***************************************************************************)
Returned(value) == [raised |-> FALSE, error |-> "", value |-> value]

CallAnalyzeReadability(docs) ==
    /\ pc = "idle"
    /\ \E doc \in docs :
        /\ call' = [fn |-> "analyze_readability", data |-> doc, body |-> Body("dict", EmptyDict)]
        /\ result' = Returned(analyze_readability(doc))
    /\ pc' = "done"
    /\ UNCHANGED <<rw, sent, received, parse>>

CallAnalyzeTopicCoverage(docs) ==
    /\ pc = "idle"
    /\ \E doc \in docs :
        /\ call' = [fn |-> "analyze_topic_coverage", data |-> doc,
                    body |-> Body("dict", EmptyDict)]
        /\ result' = Returned(analyze_topic_coverage(doc))
    /\ pc' = "done"
    /\ UNCHANGED <<rw, sent, received, parse>>

CallCalculateKeywordDensity(docs) ==
    /\ pc = "idle"
    /\ \E doc \in docs :
        /\ call' = [fn |-> "calculate_keyword_density", data |-> doc,
                    body |-> Body("dict", EmptyDict)]
        /\ result' = Returned(calculate_keyword_density(doc))
    /\ pc' = "done"
    /\ UNCHANGED <<rw, sent, received, parse>>

CallDetectTone(texts) ==
    /\ pc = "idle"
    /\ \E text \in texts :
        /\ call' = [fn |-> "detect_tone", data |-> text, body |-> Body("dict", EmptyDict)]
        /\ result' = Returned(detect_tone(text))
    /\ pc' = "done"
    /\ UNCHANGED <<rw, sent, received, parse>>

(***************************************************************************)
(* parse_text_assets, line by line.                                        *)
(***************************************************************************)
CallParseTextAssets(texts) ==
    /\ pc = "idle"
    /\ \E lines \in texts :
        /\ call' = [fn |-> "parse_text_assets", data |-> lines,
                    body |-> Body("dict", EmptyDict)]
        /\ parse' = [lines |-> lines, current_section |-> "none", assets |-> EmptyAssets]
    /\ pc' = "parse_lines"
    /\ UNCHANGED <<result, rw, sent, received>>

\* One turn of "for line in lines".
ParseNextLine ==
    /\ pc = "parse_lines"
    /\ Len(parse.lines) > 0
    /\ LET st == ParseLine([current_section |-> parse.current_section,
                            assets |-> parse.assets], Head(parse.lines))
       IN parse' = [lines |-> Tail(parse.lines), current_section |-> st.current_section,
                    assets |-> st.assets]
    /\ UNCHANGED <<pc, call, result, rw, sent, received>>

\* After the last line: the defaults, and the return.
FinishParse ==
    /\ pc = "parse_lines"
    /\ Len(parse.lines) = 0
    /\ result' = Returned(FillDefaults(parse.assets))
    /\ pc' = "done"
    /\ UNCHANGED <<call, rw, sent, received, parse>>

\* The analysis over the texts of the model.
Next ==
    \/ CallProcessContent(AnalysisDatas)
    \/ Return

Spec == Init /\ [][Next]_vars

\* The routes, the analysis and the rewrite over the requests of the model.
NextRequests ==
    \/ CallProcessContent(RequestDatas)
    \/ Optimize(Bodies(RequestDatas))
    \/ CallGenerateRewrite(RewriteDatas)
    \/ RewriteRoute(Bodies(RewriteDatas))
    \/ RequestRewrite
    \/ RequestAssets
    \/ Return

SpecRequests == Init /\ [][NextRequests]_vars

\* The analysis over the texts that vary in their topic words.
NextCoverage ==
    \/ CallProcessContent(CoverageDatas)
    \/ Return

SpecCoverage == Init /\ [][NextCoverage]_vars

\* The analyzers over the texts of the model.
NextAnalyzers ==
    \/ CallAnalyzeReadability(Docs)
    \/ CallAnalyzeTopicCoverage(Docs)
    \/ CallCalculateKeywordDensity(Docs)
    \/ CallDetectTone(ToneTexts)
    \/ Return

SpecAnalyzers == Init /\ [][NextAnalyzers]_vars

\* parse_text_assets over the texts of the model.
NextParse ==
    \/ CallParseTextAssets(ParseTexts)
    \/ ParseNextLine
    \/ FinishParse
    \/ Return

SpecParse == Init /\ [][NextParse]_vars

(***************************************************************************)
(* What the properties read.                                               *)
(***************************************************************************)
\* process_content has returned a report and its recommendations.
Analysed == pc = "done" /\ call.fn = "process_content" /\ ~result.raised
Recs == result.recommendations
Analysis == result.report.analysis
Scores == result.report.scores
HasRec(text) == \E i \in 1..Len(Recs) : Recs[i].message.text = text
InRange(r) == RLe(RInt(0), r) /\ RLe(r, RInt(100))

\* The place of a recommendation's rule in the order of evaluation.
RuleRank(rec) ==
    CASE rec.message.text = "Reading grade too high" -> 1
      [] rec.message.text = "Average sentence length too long" -> 2
      [] rec.message.text = "High passive voice usage" -> 3
      [] rec.message.text \in {"Missing H1 heading", "Multiple H1 headings found"} -> 4
      [] rec.message.text = "No H2 headings found" -> 5
      [] rec.message.text = "Keyword density too high" -> 6
      [] rec.message.text = "Content too short" -> 7
      [] rec.message.text = "Low topic coverage score" -> 8
      [] rec.message.text = "Low vocabulary diversity" -> 9

\* The place of a keyword in the keyword_density mapping the rule iterates over.
KeywordPlace(word) ==
    CHOOSE k \in 1..Len(Analysis.seo.keyword_density) :
        Analysis.seo.keyword_density[k].word = word

EvaluatedBefore(a, b) ==
    \/ RuleRank(a) < RuleRank(b)
    \/ /\ RuleRank(a) = 6
       /\ RuleRank(b) = 6
       /\ KeywordPlace(a.message.keyword) < KeywordPlace(b.message.keyword)

\* C1: the list generate_recommendations returns is sorted by non-increasing
\* priority weight (high 3, medium 2, low 1), and two recommendations of equal
\* priority stand in the order in which their rules are evaluated.
C1_SortedStable ==
    Analysed =>
        \A i, j \in 1..Len(Recs) :
            i < j =>
                /\ PriorityWeight(Recs[i].priority) >= PriorityWeight(Recs[j].priority)
                /\ PriorityWeight(Recs[i].priority) = PriorityWeight(Recs[j].priority)
                      => EvaluatedBefore(Recs[i], Recs[j])

\* A list the sort had to reorder, holding two keyword recommendations among
\* other medium ones and a high one whose rule is evaluated after them.
C1_Witness ==
    /\ Analysed
    /\ HasRec("High passive voice usage")
    /\ HasRec("Content too short")
    /\ HasRec("Low topic coverage score")
    /\ HasRec("Low vocabulary diversity")
    /\ Cardinality({i \in 1..Len(Recs) : Recs[i].message.text = "Keyword density too high"}) >= 2
    /\ Recs # RulesInOrder(Analysis, result.report.target_params)

\* C2: for non-empty content and an integer target_readability, process_content
\* returns a report, and readability_score, seo_score and content_quality_score
\* all lie in [0, 100].
C2_ScoresInRange ==
    (/\ pc = "done"
     /\ call.fn = "process_content"
     /\ "content" \in DOMAIN call.data
     /\ ~call.data["content"].empty
     /\ Get(call.data, "target_readability", PyInt(8)).tag = "int")
    => /\ ~result.raised
       /\ InRange(Scores.readability_score)
       /\ Scores.seo_score >= 0
       /\ Scores.seo_score <= 100
       /\ InRange(Scores.content_quality_score)

\* A report whose readability score is held at 0 and whose SEO score is held at
\* 100 by the clamps.
C2_Witness ==
    /\ Analysed
    /\ ~call.data["content"].empty
    /\ RGt(Analysis.readability.flesch_kincaid_grade,
           RInt(result.report.target_params.target_readability + 10))
    /\ REq(Scores.readability_score, RInt(0))
    /\ Analysis.seo.content_length > 2000
    /\ Scores.seo_score = 100

\* One rule of the table: it fires exactly when its condition holds, once, with
\* the given type, priority and target value.
RuleFires(cond, text, type, priority, target) ==
    /\ cond <=> HasRec(text)
    /\ \A i, j \in 1..Len(Recs) :
          Recs[i].message.text = text /\ Recs[j].message.text = text => i = j
    /\ \A i \in 1..Len(Recs) :
          Recs[i].message.text = text =>
              /\ Recs[i].type = type
              /\ Recs[i].priority = priority
              /\ REq(Recs[i].target_value, target)

RuleTexts ==
    {"Reading grade too high", "Average sentence length too long",
     "High passive voice usage", "Missing H1 heading", "Multiple H1 headings found",
     "No H2 headings found", "Keyword density too high", "Content too short",
     "Low topic coverage score", "Low vocabulary diversity"}

\* C3: generate_recommendations emits a recommendation for a rule exactly when
\* the rule's condition holds, with the type, priority and target value of the
\* rule table, one per keyword whose density exceeds 3, and nothing else.
C3_RuleTable ==
    Analysed =>
        LET r == Analysis.readability
            seo == Analysis.seo
            hs == seo.heading_structure
            tc == Analysis.topic_coverage
            target == result.report.target_params.target_readability
            kd == seo.keyword_density
        IN /\ RuleFires(RGt(r.flesch_kincaid_grade, RInt(target)),
                        "Reading grade too high", "readability", "high", RInt(target))
           /\ RuleFires(RGt(r.avg_sentence_length, RInt(20)),
                        "Average sentence length too long", "readability", "medium", RInt(20))
           /\ RuleFires(RGt(r.passive_voice_percentage, RInt(10)),
                        "High passive voice usage", "style", "medium", RInt(10))
           /\ RuleFires(hs.h1_count = 0, "Missing H1 heading", "seo", "high", RInt(1))
           /\ RuleFires(hs.h1_count > 1, "Multiple H1 headings found", "seo", "medium", RInt(1))
           /\ RuleFires(hs.h2_count = 0 /\ seo.content_length > 300,
                        "No H2 headings found", "seo", "medium", RInt(2))
           /\ RuleFires(seo.content_length < 300,
                        "Content too short", "content", "high", RInt(300))
           /\ RuleFires(RLt(tc.coverage_score, RInt(70)),
                        "Low topic coverage score", "content", "medium", RInt(70))
           /\ RuleFires(RLt(tc.lexical_diversity, Rat(1, 2)),
                        "Low vocabulary diversity", "style", "low", Rat(1, 2))
           /\ \A k \in 1..Len(kd) :
                 Cardinality({i \in 1..Len(Recs) :
                                 /\ Recs[i].message.text = "Keyword density too high"
                                 /\ Recs[i].message.keyword = kd[k].word})
                   = IF RGt(kd[k].density, RInt(3)) THEN 1 ELSE 0
           /\ \A i \in 1..Len(Recs) :
                 /\ Recs[i].message.text \in RuleTexts
                 /\ Recs[i].message.text = "Keyword density too high" =>
                       /\ Recs[i].type = "seo"
                       /\ Recs[i].priority = "medium"
                       /\ REq(Recs[i].target_value, RInt(3))
                       /\ \E k \in 1..Len(kd) : kd[k].word = Recs[i].message.keyword

\* Metrics standing exactly on the thresholds (coverage 70, diversity 0.5,
\* passive voice 10%, sentence length 20, grade equal to the target) with one
\* keyword above 3% and one below: only the keyword rule and the H1 rule fire.
C3_Witness ==
    /\ Analysed
    /\ REq(Analysis.topic_coverage.coverage_score, RInt(70))
    /\ REq(Analysis.readability.passive_voice_percentage, RInt(10))
    /\ REq(Analysis.readability.avg_sentence_length, RInt(20))
    /\ REq(Analysis.readability.flesch_kincaid_grade,
           RInt(result.report.target_params.target_readability))
    /\ Analysis.seo.content_length = 300
    /\ Analysis.seo.heading_structure.h1_count > 1
    /\ Len(Analysis.seo.keyword_density) = 2
    /\ Len(Recs) = 3

\* The SEO score of the formula: each adjustment taken by itself, the clamp
\* applied to the sum.
SeoFormula(h1, h2, length, dense) ==
    LET sum == 100
               - (IF h1 = 0 THEN 20 ELSE 0)
               - (IF h1 > 1 THEN 10 ELSE 0)
               + (IF h2 > 0 THEN 5 ELSE 0)
               - (IF h2 > 0 THEN 0 ELSE 10)
               - (IF length < 300 THEN 15 ELSE 0)
               + (IF length > 2000 THEN 10 ELSE 0)
               - 5 * dense
    IN IF sum < 0 THEN 0 ELSE IF sum > 100 THEN 100 ELSE sum

DenseKeywords ==
    {k \in 1..Len(Analysis.seo.keyword_density) :
        RGt(Analysis.seo.keyword_density[k].density, RInt(3))}

\* C4: calculate_seo_score is 100, minus 20 for no h1 or minus 10 for several,
\* plus 5 with an h2 else minus 10, minus 15 under 300 words or plus 10 over
\* 2000, minus 5 per keyword over 3%, clamped once to [0, 100]; zero h1, one
\* h2, 1500 words and no dense keyword give 85.
C4_SeoScore ==
    Analysed =>
        LET seo == Analysis.seo
            hs == seo.heading_structure
        IN /\ Scores.seo_score = SeoFormula(hs.h1_count, hs.h2_count, seo.content_length,
                                            Cardinality(DenseKeywords))
           /\ (/\ hs.h1_count = 0
               /\ hs.h2_count = 1
               /\ seo.content_length = 1500
               /\ DenseKeywords = {})
              => Scores.seo_score = 85

\* The document of the example, scored 85.
C4_Witness ==
    /\ Analysed
    /\ Analysis.seo.heading_structure.h1_count = 0
    /\ Analysis.seo.heading_structure.h2_count = 1
    /\ Analysis.seo.content_length = 1500
    /\ DenseKeywords = {}
    /\ Scores.seo_score = 85

\* C5: whenever content_length < 300 (empty content included, with word_count
\* and content_length 0) the list holds 'Content too short' with priority high
\* and target 300 and does not hold 'No H2 headings', whatever the heading
\* counts; the two never appear together.
C5_ShortContent ==
    Analysed =>
        /\ call.data["content"].empty =>
              /\ Analysis.readability.word_count = 0
              /\ Analysis.seo.content_length = 0
        /\ Analysis.seo.content_length < 300 =>
              /\ \E i \in 1..Len(Recs) :
                    /\ Recs[i].message.text = "Content too short"
                    /\ Recs[i].priority = "high"
                    /\ REq(Recs[i].target_value, RInt(300))
              /\ ~HasRec("No H2 headings found")
        /\ ~(HasRec("Content too short") /\ HasRec("No H2 headings found"))

\* Empty content analysed: no H2 heading, and the short-content recommendation.
C5_Witness ==
    /\ Analysed
    /\ call.data["content"].empty
    /\ Analysis.seo.heading_structure.h2_count = 0
    /\ Analysis.seo.content_length = 0
    /\ HasRec("Content too short")

(***************************************************************************)
(* Target parameters, rewrite orchestration and collaborators.             *)
(***************************************************************************)
\* The analysis path has ended: process_content called directly or by /optimize
\* on a request with content (non-empty through the route).
AnalysisPathDone ==
    /\ pc = "done"
    /\ call.fn \in {"process_content", "optimize"}
    /\ call.body.json = "dict"
    /\ "content" \in DOMAIN call.data
    /\ call.fn = "optimize" => ~call.data["content"].empty

AnalysisFailed == IF call.fn = "optimize" THEN result.status # 200 ELSE result.raised

\* The caller left the field out, or gave it empty.
AbsentOrEmptyString(k) == k \notin DOMAIN call.data \/ call.data[k] = ""
AbsentOrEmptyGrade ==
    \/ "target_readability" \notin DOMAIN call.data
    \/ call.data["target_readability"] = PyStr(<<>>)
\* No field holds anything but a usable value, an empty one, or nothing.
FieldsAbsentEmptyOrValid ==
    "target_readability" \in DOMAIN call.data =>
        \/ call.data["target_readability"] = PyStr(<<>>)
        \/ int(call.data["target_readability"]).ok

\* C6: the target_params of the report of the analysis path (process_content,
\* also through /optimize) carry the defaults 8, "general audience",
\* "professional" and "engagement" for every field the caller left absent or
\* gave empty, and such a field never makes the analysis fail.
C6_DefaultsFilled ==
    (AnalysisPathDone /\ FieldsAbsentEmptyOrValid) =>
        /\ ~AnalysisFailed
        /\ AbsentOrEmptyGrade => result.report.target_params.target_readability = 8
        /\ AbsentOrEmptyString("target_audience") =>
              result.report.target_params.target_audience = "general audience"
        /\ AbsentOrEmptyString("target_tone") =>
              result.report.target_params.target_tone = "professional"
        /\ AbsentOrEmptyString("optimization_goal") =>
              result.report.target_params.optimization_goal = "engagement"

\* generate_rewrite was entered, directly or by the /rewrite route, and has ended.
RewriteEnded ==
    /\ pc = "done"
    /\ \/ call.fn = "generate_rewrite"
       \/ call.fn = "rewrite" /\ call.body.json = "dict" /\ ~NoContent(call.data)
\* The data generate_rewrite was given: the route fills the defaults in first.
RewriteData == IF call.fn = "rewrite" THEN SetDefaults(call.data) ELSE call.data
RewriteRaised == IF call.fn = "rewrite" THEN result.status # 200 ELSE result.raised
\* The analysis raised inside the try block.
AnalysisRaisedInside ==
    /\ RewriteEnded
    /\ "content" \in DOMAIN RewriteData
    /\ process_content(RewriteData).raised

\* C7: when the analysis raises inside generate_rewrite, generate_rewrite does
\* not raise: it calls the rewrite collaborator with the content, the target
\* parameters and no recommendations, then the asset collaborator, and returns
\* the pair (rewritten, assets).
C7_AnalysisFailureFallsBack ==
    AnalysisRaisedInside =>
        /\ ~RewriteRaised
        /\ Len(sent) = 2
        /\ sent[1].fn = "gemini_rewrite"
        /\ sent[1].content = RewriteData["content"]
        /\ sent[1].recommendations = NoRecommendations
        /\ sent[1].target_params = rewrite_target_params(RewriteData)
        /\ sent[1].prompt.improvements_text.generic
        /\ sent[2].fn = "gemini_generate_assets"
        /\ sent[2].content = RewriteData["content"]
        /\ sent[2].target_params = rewrite_target_params(RewriteData)
        /\ result.rewritten = rw.rewritten
        /\ result.assets = AssetsHandler(AssetsAttempt(received)).value

\* A direct call whose target_readability is the empty string: int('') raised,
\* the service's rewrite was returned with the default assets.
C7_Witness ==
    /\ AnalysisRaisedInside
    /\ call.fn = "generate_rewrite"
    /\ "target_readability" \in DOMAIN call.data
    /\ call.data["target_readability"] = PyStr(<<>>)
    /\ ~result.raised
    /\ result.rewritten = "# A Clear Title"
    /\ received.status_code = 500
    /\ result.assets = get_default_assets

\* The messages of the recommendations of priority high or medium, in order.
RECURSIVE HighMediumMessages(_)
HighMediumMessages(recs) ==
    IF Len(recs) = 0 THEN <<>>
    ELSE (IF PriorityWeight(Head(recs).priority) >= 2 THEN <<Head(recs).message>> ELSE <<>>)
         \o HighMediumMessages(Tail(recs))

\* C8: of the recommendations handed to gemini_rewrite only those of priority
\* high or medium give an improvement point to the prompt, a low one never
\* does, and with no high or medium recommendation (or none passed) the generic
\* improvement text is used.
C8_OnlyHighMediumInPrompt ==
    \A n \in 1..Len(sent) :
        sent[n].fn = "gemini_rewrite" =>
            LET recs == sent[n].recommendations.list
                text == sent[n].prompt.improvements_text
            IN /\ text.points = HighMediumMessages(recs)
               /\ \A i \in 1..Len(recs) :
                     recs[i].priority = "low" =>
                        \A k \in 1..Len(text.points) : text.points[k] # recs[i].message
               /\ text.generic <=>
                     \/ ~sent[n].recommendations.given
                     \/ \A i \in 1..Len(recs) : recs[i].priority \notin {"high", "medium"}
               /\ text.generic => text.points = <<>>

\* A rewrite request made with recommendations of all three priorities: the
\* prompt holds a point for each but the low one.
C8_Witness ==
    \E n \in 1..Len(sent) :
        /\ sent[n].fn = "gemini_rewrite"
        /\ \E i \in 1..Len(sent[n].recommendations.list) :
              sent[n].recommendations.list[i].priority = "low"
        /\ \E i \in 1..Len(sent[n].recommendations.list) :
              sent[n].recommendations.list[i].priority = "high"
        /\ \E i \in 1..Len(sent[n].recommendations.list) :
              sent[n].recommendations.list[i].priority = "medium"
        /\ ~sent[n].prompt.improvements_text.generic
        /\ Len(sent[n].prompt.improvements_text.points)
              = Len(sent[n].recommendations.list) - 1

Placeholders ==
    {"[AI Enhancement: Unable to process content at this time]",
     "[AI Enhancement: Service temporarily unavailable due to high demand. Please try again later.]",
     "[AI Enhancement: Service temporarily unavailable. Your original content analysis is still available above.]",
     "[AI Enhancement: Request timeout. Please try again with shorter content.]",
     "[AI Enhancement: Currently unavailable. Your content analysis is still available above.]",
     "[AI Enhancement: Temporarily unavailable. Please use the content analysis results above.]"}

\* The service answered 200 with a first candidate that carries a text.
CandidateText(response) ==
    /\ response.exc = "none"
    /\ response.status_code = 200
    /\ response.json_exc = "none"
    /\ response.has_candidates
    /\ Len(response.candidates) > 0
    /\ response.candidates[1].has_text

\* C9: gemini_rewrite never raises, whatever the network call does: on HTTP 200
\* with a candidate it returns the candidate's text; on HTTP 429, any other
\* status, an empty candidate list, a timeout, a request error or any other
\* exception it returns a placeholder string.
C9_RewriteNeverRaises ==
    [][pc = "rw_rewrite" =>
          /\ pc' = "rw_assets"
          /\ IF CandidateText(received')
             THEN rw'.rewritten = received'.candidates[1].text
             ELSE rw'.rewritten \in Placeholders]_vars

\* The service answered 429 and the rewrite is the placeholder for it.
C9_Witness ==
    /\ pc = "rw_assets"
    /\ received.status_code = 429
    /\ rw.rewritten = "[AI Enhancement: Service temporarily unavailable due to high demand. Please try again later.]"

\* The asset request has been answered and generate_rewrite has returned.
AssetsReturned == RewriteEnded /\ ~RewriteRaised /\ Len(sent) > 0
\* The call itself failed: an exception, a status other than 200, a body that is
\* not JSON, no candidate, or a candidate without text.
AssetCallFailed == ~CandidateText(received)
AssetText == received.candidates[1].text
\* The slice from the first "{" to the last "}" parses.
JsonParsed == AssetText.first_open # -1 /\ AssetText.loads.ok
BundleKeys ==
    {"headlines", "meta_description", "faqs", "cta_options", "summary", "keywords",
     "social_media_posts"}

\* C10 as stated: gemini_generate_assets returns the default bundle of
\* get_default_assets on any failure of the asset service: non-200 status,
\* missing candidates, an exception during the call, or a response whose text
\* is not a parseable JSON bundle.
C10_DefaultOnAnyFailure ==
    (/\ AssetsReturned
     /\ \/ AssetCallFailed
        \/ ~JsonParsed
        \/ DOMAIN AssetText.loads.value # BundleKeys)
    => result.assets = get_default_assets

\* C10 amended: gemini_generate_assets returns the default bundle when the call
\* fails (an exception, a non-200 status, no candidate, a candidate without
\* text).  When the text holds a JSON object that parses, that object is
\* returned as it is.  Otherwise the text is parsed line by line: the bundle
\* returned has the default meta_description and faqs, the default headlines
\* and cta_options unless three or more were parsed, the parsed keywords, an
\* empty summary and no social media posts.
C10_DefaultOnCallFailure ==
    AssetsReturned =>
        IF AssetCallFailed THEN result.assets = get_default_assets
        ELSE IF JsonParsed THEN result.assets = AssetText.loads.value
        ELSE /\ DOMAIN result.assets = BundleKeys
             /\ result.assets.meta_description = get_default_assets.meta_description
             /\ result.assets.faqs = get_default_assets.faqs
             /\ \/ result.assets.headlines = get_default_assets.headlines
                \/ Len(result.assets.headlines) >= 3
             /\ \/ result.assets.cta_options = get_default_assets.cta_options
                \/ Len(result.assets.cta_options) >= 3
             /\ result.assets.summary = ""
             /\ result.assets.social_media_posts = EmptyDict
             /\ result.assets # get_default_assets

\* A text without JSON whose three headlines and one keyword were parsed: the
\* bundle returned holds them, and not the default summary.
C10_Witness ==
    /\ AssetsReturned
    /\ ~AssetCallFailed
    /\ ~JsonParsed
    /\ Len(AssetText.lines) > 3
    /\ result.assets.headlines # get_default_assets.headlines
    /\ result.assets.keywords = <<"content">>
    /\ result.assets.summary = ""
    /\ result.assets.cta_options = get_default_assets.cta_options

(***************************************************************************)
(* Tone detection.                                                         *)
(***************************************************************************)
ToneDetected == pc = "done" /\ call.fn = "detect_tone"
Tone == result.value
ToneNames == {"formal", "casual", "expert", "persuasive"}
\* The place of a tone in the fixed order formal, casual, expert, persuasive.
ToneRank(t) ==
    CASE t = "formal" -> 1 [] t = "casual" -> 2 [] t = "expert" -> 3 [] t = "persuasive" -> 4

\* C11: detect_tone reports the tone with the maximum score; "neutral" when all
\* four scores are 0; the first tone in the order formal, casual, expert,
\* persuasive when several share the maximum.
C11_DominantTone ==
    ToneDetected =>
        LET scores == Tone.tone_scores
        IN IF \A t \in ToneNames : scores[t] = 0
           THEN Tone.detected_tone = "neutral"
           ELSE /\ Tone.detected_tone \in ToneNames
                /\ \A t \in ToneNames : scores[t] <= scores[Tone.detected_tone]
                /\ \A t \in ToneNames :
                      scores[t] = scores[Tone.detected_tone] =>
                          ToneRank(Tone.detected_tone) <= ToneRank(t)

\* Casual and persuasive share the maximum 1: casual is reported.
C11_Witness ==
    /\ ToneDetected
    /\ Tone.tone_scores = [formal |-> 0, casual |-> 1, expert |-> 0, persuasive |-> 1]
    /\ Tone.detected_tone = "casual"

(***************************************************************************)
(* Ratios.                                                                 *)
(***************************************************************************)
\* The division that gave the number was by something other than zero.
Defined(r) == r.d > 0
CalledOn(fn) == pc = "done" /\ call.fn = fn

\* C12: no ratio metric divides by zero: passive_voice_percentage is 0 for a
\* text without sentences, lexical_diversity is 0 without qualifying words,
\* the tone confidence is 0 for a text without words, keyword_density is the
\* empty mapping without qualifying keywords, and none of these raises.
C12_NoDivisionByZero ==
    /\ CalledOn("analyze_readability") =>
          /\ ~result.raised
          /\ Defined(result.value.passive_voice_percentage)
          /\ call.data.sentences = 0 => result.value.passive_voice_percentage = RInt(0)
    /\ CalledOn("analyze_topic_coverage") =>
          /\ ~result.raised
          /\ Defined(result.value.lexical_diversity)
          /\ Defined(result.value.coverage_score)
          /\ call.data.total = 0 => result.value.lexical_diversity = RInt(0)
    /\ CalledOn("detect_tone") =>
          /\ ~result.raised
          /\ Defined(result.value.confidence)
          /\ call.data.words = 0 => result.value.confidence = RInt(0)
    /\ CalledOn("calculate_keyword_density") =>
          /\ ~result.raised
          /\ \A i \in DOMAIN result.value : Defined(result.value[i].density)
          /\ SumSeq(call.data.kwfreq) = 0 => result.value = <<>>

\* Markup without a word in it: no sentence, and a passive voice percentage of 0.
C12_Witness ==
    /\ CalledOn("analyze_readability")
    /\ ~call.data.empty
    /\ call.data.sentences = 0
    /\ call.data.h1 > 0
    /\ result.value.passive_voice_percentage = RInt(0)

\* C18 as stated: each tone score counts an indicator at most once, so it is at
\* most the number of indicators of its list, and the confidence
\* max_score / word_count * 100 is a percentage in [0, 100].
C18_ConfidenceIsPercentage ==
    ToneDetected =>
        /\ Tone.tone_scores.formal <= Len(formal_indicators)
        /\ Tone.tone_scores.casual <= Len(casual_indicators)
        /\ Tone.tone_scores.expert <= Len(expert_indicators)
        /\ Tone.tone_scores.persuasive <= Len(persuasive_indicators)
        /\ InRange(Tone.confidence)

(***************************************************************************)
(* Input errors of the routes.                                             *)
(***************************************************************************)
\* A route has answered a request without a body, or without content in it.
BadRequestAnswered ==
    /\ pc = "done"
    /\ call.fn \in {"optimize", "rewrite"}
    /\ call.body.json # "dict" \/ NoContent(call.data)

\* C13: both /optimize and /rewrite answer a request whose body is missing, or
\* whose content is missing or empty, with status 400, and call neither
\* process_content nor generate_rewrite for it.
C13_InputErrorIs400 ==
    BadRequestAnswered =>
        /\ result.status = 400
        /\ result.report = <<>>
        /\ rw = NoRewrite
        /\ sent = <<>>

(***************************************************************************)
(* parse_text_assets.                                                      *)
(***************************************************************************)
\* The section keywords in the order they are tried, with their sections.
SectionTests ==
    <<[keywords |-> {"headline"}, section |-> "headlines"],
      [keywords |-> {"meta description"}, section |-> "meta_description"],
      [keywords |-> {"faq"}, section |-> "faqs"],
      [keywords |-> {"cta", "call to action"}, section |-> "cta_options"],
      [keywords |-> {"summary"}, section |-> "summary"],
      [keywords |-> {"keyword"}, section |-> "keywords"]>>
NamesSection(line) == \E i \in 1..Len(SectionTests) : SectionTests[i].keywords \cap line.has # {}
FirstSection(line) ==
    LET first == CHOOSE i \in 1..Len(SectionTests) :
                    /\ SectionTests[i].keywords \cap line.has # {}
                    /\ \A j \in 1..(i - 1) : SectionTests[j].keywords \cap line.has = {}
    IN SectionTests[first].section
\* The sections that take content, and the length a text must exceed.
MinLength == [headlines |-> 10, cta_options |-> 5, keywords |-> 2]

\* C14: parse_text_assets takes the lines in order; a line with a section
\* keyword sets the current section (first match in the order headline, meta
\* description, faq, cta / call to action, summary, keyword) and adds no
\* content even when it is a bullet; a bullet line without a keyword is
\* appended to the current section's list only when the section is headlines,
\* cta_options or keywords and its text is longer than 10, 5 or 2; any other
\* line changes nothing.
C14_LineStateMachine ==
    [][(pc = "parse_lines" /\ Len(parse.lines) > 0) =>
          LET line == Head(parse.lines)
              section == parse.current_section
          IN /\ parse'.lines = Tail(parse.lines)
             /\ IF NamesSection(line)
                THEN /\ parse'.current_section = FirstSection(line)
                     /\ parse'.assets = parse.assets
                ELSE IF /\ line.bullet
                        /\ section \in DOMAIN MinLength
                        /\ line.len > MinLength[section]
                THEN /\ parse'.current_section = section
                     /\ parse'.assets =
                            [parse.assets EXCEPT ![section] = Append(@, line.text)]
                ELSE /\ parse'.current_section = section
                     /\ parse'.assets = parse.assets]_vars

\* A bullet line that names a section was read after a summary-and-keywords
\* line and a bullet: the section is cta_options and no content was taken.
C14_Witness ==
    /\ pc = "parse_lines"
    /\ Len(call.data) = 3
    /\ call.data[1].has = {"summary", "keyword"}
    /\ call.data[2].bullet /\ call.data[2].has = {}
    /\ call.data[3].bullet /\ call.data[3].has = {"cta"}
    /\ parse.lines = <<>>
    /\ parse.current_section = "cta_options"
    /\ parse.assets = EmptyAssets

ParseReturned == pc = "done" /\ call.fn = "parse_text_assets"
\* What the loop over the lines collected, before the defaults.
Parsed == parse.assets

\* C15: the bundle parse_text_assets returns has all seven keys, at least 3
\* headlines, a non-empty meta_description, at least 3 faqs and at least 3
\* cta_options; each of these four parts that parsing left short is the
\* default bundle's value as a whole.
C15_BundleComplete ==
    ParseReturned =>
        LET assets == result.value
        IN /\ ~result.raised
           /\ DOMAIN assets = BundleKeys
           /\ Len(assets.headlines) >= 3
           /\ assets.meta_description # ""
           /\ Len(assets.faqs) >= 3
           /\ Len(assets.cta_options) >= 3
           /\ Len(Parsed.headlines) < 3 => assets.headlines = get_default_assets.headlines
           /\ Parsed.meta_description = "" =>
                 assets.meta_description = get_default_assets.meta_description
           /\ Len(Parsed.faqs) < 3 => assets.faqs = get_default_assets.faqs
           /\ Len(Parsed.cta_options) < 3 =>
                 assets.cta_options = get_default_assets.cta_options

\* Two headlines were parsed: the bundle holds the three default headlines.
C15_Witness ==
    /\ ParseReturned
    /\ Len(Parsed.headlines) = 2
    /\ result.value.headlines = get_default_assets.headlines

(***************************************************************************)
(* The order of the calls generate_rewrite makes.                          *)
(***************************************************************************)
\* What the analysis attempt hands on once it has finished: the
\* recommendations of the report, or none when it raised.
AnalysisOutcome ==
    LET attempt == process_content(RewriteData)
    IN IF attempt.raised THEN NoRecommendations
       ELSE Recommendations(attempt.recommendations)

\* C16: in every execution of generate_rewrite (the collaborators not raising)
\* the rewrite collaborator is called exactly once and the asset collaborator
\* exactly once, the rewrite before the assets, and both only after the
\* analysis attempt has finished, with success or with a failure.
C16_CollaboratorOrder ==
    /\ Len(sent) <= 2
    /\ pc \in {"idle", "rw_rewrite"} => sent = <<>>
    /\ pc = "rw_assets" => Len(sent) = 1
    /\ Len(sent) >= 1 =>
          /\ sent[1].fn = "gemini_rewrite"
          /\ sent[1].recommendations = AnalysisOutcome
    /\ Len(sent) = 2 => sent[2].fn = "gemini_generate_assets" /\ pc = "done"
    /\ (RewriteEnded /\ ~RewriteRaised) => Len(sent) = 2

\* generate_rewrite has returned after an analysis that gave recommendations
\* and a rewrite request answered with a placeholder.
C16_Witness ==
    /\ RewriteEnded
    /\ ~RewriteRaised
    /\ Len(sent) = 2
    /\ sent[1].recommendations.given
    /\ Len(sent[1].recommendations.list) > 0
    /\ result.rewritten \in Placeholders
    /\ sent[2].fn = "gemini_generate_assets"

(***************************************************************************)
(* Topic coverage and vocabulary diversity.                                *)
(***************************************************************************)
\* C17: in every report of process_content, 'Low topic coverage score'
\* (coverage_score < 70) comes with 'Low vocabulary diversity'
\* (lexical_diversity < 0.5); content with 1 to 10 qualifying words has
\* coverage_score 100.
C17_LowCoverageImpliesLowDiversity ==
    Analysed =>
        LET tc == Analysis.topic_coverage
        IN /\ RLt(tc.coverage_score, RInt(70)) <=> HasRec("Low topic coverage score")
           /\ HasRec("Low topic coverage score") => HasRec("Low vocabulary diversity")
           /\ (tc.total_words >= 1 /\ tc.total_words <= 10) =>
                 REq(tc.coverage_score, RInt(100))

\* Twenty qualifying words, one of them distinct: coverage 50, diversity
\* 0.05, both recommendations.
C17_Witness ==
    /\ Analysed
    /\ Analysis.topic_coverage.total_words = 20
    /\ Analysis.topic_coverage.unique_words = 1
    /\ REq(Analysis.topic_coverage.coverage_score, RInt(50))
    /\ HasRec("Low topic coverage score")
    /\ HasRec("Low vocabulary diversity")

====
